---- MODULE Spec2Model ----
(***************************************************************************)
(* Model of src/gemini_config.py: the RateLimiter (two sliding windows      *)
(* behind one lock, retry with exponential backoff) and the PriorityScorer. *)
(* Time is counted in ticks of 0.1 second, the smallest duration the code   *)
(* uses (the 0.1 s sleep buffer and poll interval).  The first thread is    *)
(* the caller of execute_with_retry; all threads call wait_if_needed.       *)
(***************************************************************************)
EXTENDS Integers, Sequences, FiniteSets

VARIABLES
    args,             \* the arguments the caller passes to RateLimiter.__init__
    lim,              \* the limiter's configuration fields, NoLimiter before __init__
    minute_requests,  \* self.minute_requests (deque, head first)
    hour_requests,    \* self.hour_requests
    lock,             \* self.lock: 0 when free, else the thread holding it
    now,              \* the clock read by datetime.now(), in ticks
    th,               \* per thread: position and locals of its current call
    admitLog,         \* history: every timestamp ever recorded by an admission
    callsLeft,        \* calls the callers may still start
    horizon,          \* the instant the observation of the program ends
    complaints,       \* the list of complaint dicts a caller passes to the scorer
    scored            \* history: the outcome of each scorer call made so far

vars == <<args, lim, minute_requests, hour_requests, lock, now, th, admitLog, callsLeft, horizon, complaints, scored>>

----------------------------------------------------------------------------
(* Bounds of the model *)

NumThreads == 2
MaxCalls == 2
MaxTime == 1300
MaxPolls == 2

Threads == 1..NumThreads

(* The first thread is the caller of execute_with_retry(); every thread,   *)
(* it included, may call wait_if_needed() directly.                        *)
RetryCallers == {1}

----------------------------------------------------------------------------
(* Program constants, in ticks of 0.1 s *)

MinuteTicks == 600
HourTicks == 36000
BufferTicks == 1
PollTicks == 1
MaxDelayTicks == 600
BackoffFactor == 2

----------------------------------------------------------------------------
(* Strings are sequences of one-character strings, so that str.lower() and *)
(* the substring test `in` are computed rather than assumed.               *)

UpperChars == <<"A","B","C","D","E","F","G","H","I","J","K","L","M",
                "N","O","P","Q","R","S","T","U","V","W","X","Y","Z">>
LowerChars == <<"a","b","c","d","e","f","g","h","i","j","k","l","m",
                "n","o","p","q","r","s","t","u","v","w","x","y","z">>

LowerChar(c) ==
    IF \E i \in 1..Len(UpperChars) : UpperChars[i] = c
    THEN LowerChars[CHOOSE i \in 1..Len(UpperChars) : UpperChars[i] = c]
    ELSE c

Lower(s) == [i \in 1..Len(s) |-> LowerChar(s[i])]

Contains(s, sub) ==
    \E i \in 0..(Len(s) - Len(sub)) :
        \A j \in 1..Len(sub) : s[i + j] = sub[j]

Str429 == <<"4","2","9">>
StrRateLimit == <<"r","a","t","e"," ","l","i","m","i","t">>

IsRateLimit(error_msg) ==
    Contains(error_msg, Str429) \/ Contains(Lower(error_msg), StrRateLimit)

(* The messages of the exceptions the wrapped operation may raise. *)
Msg429 == <<"E","r","r"," ","4","2","9">>
MsgRateLimit == <<"R","a","t","e"," ","L","i","m","i","t">>
MsgTimeout == <<"t","i","m","e","o","u","t">>
Messages == {Msg429, MsgRateLimit, MsgTimeout}

(* time.sleep() of a negative length raises ValueError with this message. *)
MsgSleepValueError == <<"s","l","e","e","p"," ","l","e","n","g","t","h">>

NoErr == <<>>

(* The values the wrapped operation may return; "None" is Python's None. *)
Values == {"r1", "r2"}
NoRet == "unset"
PyNone == "None"

----------------------------------------------------------------------------
(* RateLimiter.__init__ *)

NoLimiter == [requests_per_minute |-> 0, requests_per_hour |-> 0,
              max_retries |-> 0, initial_retry_delay |-> 0, built |-> FALSE]

RateLimiterInit(a) ==
    [requests_per_minute |-> a.requests_per_minute,
     requests_per_hour |-> a.requests_per_hour,
     max_retries |-> a.max_retries,
     initial_retry_delay |-> a.initial_retry_delay,
     built |-> TRUE]

Arg(rpm, rph, mr, ird) ==
    [requests_per_minute |-> rpm, requests_per_hour |-> rph,
     max_retries |-> mr, initial_retry_delay |-> ird]

(* Arguments in the documented domain: positive limits, a non-negative     *)
(* retry count, a positive initial delay (10 ticks = 1.0 s, the default).  *)
DocumentedArgs ==
    {Arg(1, 1, 0, 10), Arg(1, 2, 1, 10), Arg(2, 2, 2, 10),
     Arg(2, 3, 1, 1000), Arg(1, 3, 2, 5)}

(* Arguments outside it, which __init__ accepts as well. *)
UndocumentedArgs ==
    {Arg(0, 1, 0, 10), Arg(-1, 1, 1, 10), Arg(1, 0, 0, 10),
     Arg(2, 2, -1, 10), Arg(2, 2, 1, 0), Arg(2, 2, 1, -10)}

InitThread ==
    [pc |-> "idle", mode |-> "none", attempt |-> 0, retry_delay |-> 0,
     wait_time |-> 0, wake |-> 0, polls |-> 0, waits |-> 0, err |-> NoErr,
     ret |-> NoRet,
     invoked |-> 0, admitted |-> 0, slept |-> <<>>, hist |-> <<>>,
     lastval |-> NoRet, lasterr |-> NoErr]

InitWith(argset, calls, end) ==
    /\ args \in argset
    /\ lim = NoLimiter
    /\ minute_requests = <<>>
    /\ hour_requests = <<>>
    /\ lock = 0
    /\ now = 0
    /\ th = [t \in Threads |-> InitThread]
    /\ admitLog = <<>>
    /\ callsLeft = calls
    /\ horizon = end
    /\ complaints = <<>>
    /\ scored = <<>>

Init == InitWith(DocumentedArgs, MaxCalls, MaxTime)

InitCtor == InitWith(DocumentedArgs \cup UndocumentedArgs, MaxCalls, MaxTime)

Construct ==
    /\ ~lim.built
    /\ lim' = RateLimiterInit(args)
    /\ minute_requests' = <<>>
    /\ hour_requests' = <<>>
    /\ lock' = 0
    /\ UNCHANGED <<args, now, th, admitLog, callsLeft, horizon, complaints, scored>>

----------------------------------------------------------------------------
(* RateLimiter._clean_old_requests, _can_make_request, _get_wait_time *)

RECURSIVE PopOld(_, _)
PopOld(q, cutoff) ==
    IF q # <<>> /\ q[1] < cutoff THEN PopOld(Tail(q), cutoff) ELSE q

CleanMinute(q, t) == PopOld(q, t - MinuteTicks)

(* an hour window whose span is a second instead of an hour *)
CleanHourShort(q, t) == PopOld(q, t - (HourTicks \div 3600))

(* an hour window that is never purged *)
CleanHourNever(q, t) == q

CleanHour(q, t) == PopOld(q, t - HourTicks)

CanMakeRequestOffByOne(m, h) ==
    /\ Len(m) <= lim.requests_per_minute
    /\ Len(h) <= lim.requests_per_hour

CanMakeRequest(m, h) ==
    /\ Len(m) < lim.requests_per_minute
    /\ Len(h) < lim.requests_per_hour

Max(a, b) == IF a >= b THEN a ELSE b

Min(a, b) == IF a <= b THEN a ELSE b

(* a wait of a whole minute on an empty minute window *)
GetWaitTimeFullMinute(m, t) ==
    IF m = <<>> THEN MinuteTicks ELSE Max(0, (m[1] + MinuteTicks) - t)

GetWaitTime(m, t) ==
    IF m = <<>> THEN 0 ELSE Max(0, (m[1] + MinuteTicks) - t)

----------------------------------------------------------------------------
(* The callers: each thread calls wait_if_needed() or execute_with_retry() *)

Set(t, r) == th' = [th EXCEPT ![t] = r]

AtRest(t) == th[t].pc \in {"idle", "returned", "raised"}

CallAdmit(t) ==
    /\ lim.built
    /\ AtRest(t)
    /\ callsLeft > 0
    /\ callsLeft' = callsLeft - 1
    /\ Set(t, [InitThread EXCEPT !.pc = "acquire", !.mode = "admit"])
    /\ UNCHANGED <<args, lim, minute_requests, hour_requests, lock, now, admitLog, horizon, complaints, scored>>

CallExecute(t) ==
    /\ lim.built
    /\ t \in RetryCallers
    /\ AtRest(t)
    /\ callsLeft > 0
    /\ callsLeft' = callsLeft - 1
    /\ Set(t, [InitThread EXCEPT !.pc = "loop", !.mode = "exec",
                                 !.retry_delay = lim.initial_retry_delay])
    /\ UNCHANGED <<args, lim, minute_requests, hour_requests, lock, now, admitLog, horizon, complaints, scored>>

(* A retry that goes straight to the operation, past wait_if_needed(). *)
LoopHeadRetrySkipsGate(t) ==
    /\ th[t].pc = "loop"
    /\ IF th[t].attempt < lim.max_retries + 1
       THEN Set(t, [th[t] EXCEPT !.pc = IF th[t].attempt = 0 THEN "acquire" ELSE "call"])
       ELSE Set(t, [th[t] EXCEPT !.pc = "returned", !.ret = PyNone])
    /\ UNCHANGED <<args, lim, minute_requests, hour_requests, lock, now, admitLog, callsLeft, horizon, complaints, scored>>

(* for attempt in range(self.max_retries + 1): an exhausted range falls    *)
(* off the end of the function, which returns None.                        *)
LoopHead(t) ==
    /\ th[t].pc = "loop"
    /\ IF th[t].attempt < lim.max_retries + 1
       THEN Set(t, [th[t] EXCEPT !.pc = "acquire"])
       ELSE Set(t, [th[t] EXCEPT !.pc = "returned", !.ret = PyNone])
    /\ UNCHANGED <<args, lim, minute_requests, hour_requests, lock, now, admitLog, callsLeft, horizon, complaints, scored>>

(* wait_if_needed: with self.lock *)
Acquire(t) ==
    /\ th[t].pc = "acquire"
    /\ lock = 0
    /\ lock' = t
    /\ Set(t, [th[t] EXCEPT !.pc = "check", !.waits = 0])
    /\ UNCHANGED <<args, lim, minute_requests, hour_requests, now, admitLog, callsLeft, horizon, complaints, scored>>

(* while not self._can_make_request() *)
Check(t) ==
    /\ th[t].pc = "check"
    /\ LET m == CleanMinute(minute_requests, now)
           h == CleanHour(hour_requests, now)
       IN /\ minute_requests' = m
          /\ hour_requests' = h
          /\ Set(t, [th[t] EXCEPT !.pc = IF CanMakeRequest(m, h) THEN "record" ELSE "getwait"])
    /\ UNCHANGED <<args, lim, lock, now, admitLog, callsLeft, horizon, complaints, scored>>

(* a wait that ends the instant the oldest entry is 60 s old *)
GetWaitNoBuffer(t) ==
    /\ th[t].pc = "getwait"
    /\ LET m == CleanMinute(minute_requests, now)
           h == CleanHour(hour_requests, now)
           w == GetWaitTime(m, now)
       IN /\ minute_requests' = m
          /\ hour_requests' = h
          /\ IF w > 0
             THEN Set(t, [th[t] EXCEPT !.pc = "sleepwait", !.wait_time = w,
                                       !.wake = now + w,
                                       !.waits = @ + 1])
             ELSE Set(t, [th[t] EXCEPT !.pc = "sleeppoll", !.wait_time = w,
                                       !.wake = now + PollTicks,
                                       !.polls = Min(@ + 1, MaxPolls + 1),
                                       !.waits = IF m = <<>> THEN @ ELSE @ + 1])
    /\ UNCHANGED <<args, lim, lock, now, admitLog, callsLeft, horizon, complaints, scored>>

(* wait_time = self._get_wait_time(), then the choice of the sleep; waits  *)
(* counts the sleeps of this wait_if_needed begun on a minute window that  *)
(* is not empty                                                            *)
GetWait(t) ==
    /\ th[t].pc = "getwait"
    /\ LET m == CleanMinute(minute_requests, now)
           h == CleanHour(hour_requests, now)
           w == GetWaitTime(m, now)
       IN /\ minute_requests' = m
          /\ hour_requests' = h
          /\ IF w > 0
             THEN Set(t, [th[t] EXCEPT !.pc = "sleepwait", !.wait_time = w,
                                       !.wake = now + w + BufferTicks,
                                       !.waits = @ + 1])
             ELSE Set(t, [th[t] EXCEPT !.pc = "sleeppoll", !.wait_time = w,
                                       !.wake = now + PollTicks,
                                       !.polls = Min(@ + 1, MaxPolls + 1),
                                       !.waits = IF m = <<>> THEN @ ELSE @ + 1])
    /\ UNCHANGED <<args, lim, lock, now, admitLog, callsLeft, horizon, complaints, scored>>

(* time.sleep(wait_time + 0.1) is over; self._clean_old_requests(datetime.now()) *)
WakeWait(t) ==
    /\ th[t].pc = "sleepwait"
    /\ now >= th[t].wake
    /\ minute_requests' = CleanMinute(minute_requests, now)
    /\ hour_requests' = CleanHour(hour_requests, now)
    /\ Set(t, [th[t] EXCEPT !.pc = "check"])
    /\ UNCHANGED <<args, lim, lock, now, admitLog, callsLeft, horizon, complaints, scored>>

(* time.sleep(0.1) is over *)
WakePoll(t) ==
    /\ th[t].pc = "sleeppoll"
    /\ now >= th[t].wake
    /\ Set(t, [th[t] EXCEPT !.pc = "check"])
    /\ UNCHANGED <<args, lim, minute_requests, hour_requests, lock, now, admitLog, callsLeft, horizon, complaints, scored>>

(* Whether the lock is released where the `with` block ends. *)
(* a `with` block that leaves the lock with the thread *)
LockKept(t) == t

ReleasedLock(t) == 0

(* Record this request, and leave the `with` block *)
Record(t) ==
    /\ th[t].pc = "record"
    /\ minute_requests' = Append(minute_requests, now)
    /\ hour_requests' = Append(hour_requests, now)
    /\ admitLog' = Append(admitLog, now)
    /\ lock' = ReleasedLock(t)
    /\ Set(t, [th[t] EXCEPT !.pc = IF th[t].mode = "admit" THEN "returned" ELSE "call",
                            !.ret = IF th[t].mode = "admit" THEN PyNone ELSE @,
                            !.admitted = @ + 1])
    /\ UNCHANGED <<args, lim, now, callsLeft, horizon, complaints, scored>>

(* result = func(...); return result *)
FuncReturns(t) ==
    /\ th[t].pc = "call"
    /\ \E v \in Values :
          Set(t, [th[t] EXCEPT !.pc = "returned", !.ret = v, !.lastval = v,
                               !.invoked = @ + 1, !.hist = Append(@, "ok")])
    /\ UNCHANGED <<args, lim, minute_requests, hour_requests, lock, now, admitLog, callsLeft, horizon, complaints, scored>>

(* a failed attempt that takes its timestamp out of the windows again *)
FuncRaisesGivesSlotBack(t) ==
    /\ th[t].pc = "call"
    /\ \E msg \in Messages :
          Set(t, [th[t] EXCEPT !.pc = "except", !.err = msg, !.lasterr = msg,
                               !.invoked = @ + 1,
                               !.hist = Append(@, IF IsRateLimit(msg) THEN "rl" ELSE "other")])
    /\ minute_requests' = SubSeq(minute_requests, 1, Len(minute_requests) - 1)
    /\ hour_requests' = SubSeq(hour_requests, 1, Len(hour_requests) - 1)
    /\ UNCHANGED <<args, lim, lock, now, admitLog, callsLeft, horizon, complaints, scored>>

(* func raises: except Exception as e *)
FuncRaises(t) ==
    /\ th[t].pc = "call"
    /\ \E msg \in Messages :
          Set(t, [th[t] EXCEPT !.pc = "except", !.err = msg, !.lasterr = msg,
                               !.invoked = @ + 1,
                               !.hist = Append(@, IF IsRateLimit(msg) THEN "rl" ELSE "other")])
    /\ UNCHANGED <<args, lim, minute_requests, hour_requests, lock, now, admitLog, callsLeft, horizon, complaints, scored>>

(* The except block with the retry condition given as a parameter. *)
ExceptWhen(t, retry) ==
    /\ th[t].pc = "except"
    /\ IF retry
       THEN Set(t, [th[t] EXCEPT !.pc = "backoff",
                                 !.wake = now + th[t].retry_delay,
                                 !.slept = Append(@, th[t].retry_delay)])
       ELSE Set(t, [th[t] EXCEPT !.pc = "raised"])
    /\ UNCHANGED <<args, lim, minute_requests, hour_requests, lock, now, admitLog, callsLeft, horizon, complaints, scored>>

(* attempt <= max_retries: one retry too many *)
ExceptOneRetryTooMany(t) ==
    ExceptWhen(t, IsRateLimit(th[t].err) /\ th[t].attempt <= lim.max_retries)

(* every exception is retried, rate limit or not *)
ExceptRetriesAnyError(t) ==
    ExceptWhen(t, th[t].attempt < lim.max_retries)

(* attempt < max_retries - 1: gives up one retry early *)
ExceptGivesUpEarly(t) ==
    ExceptWhen(t, IsRateLimit(th[t].err) /\ th[t].attempt < lim.max_retries - 1)

(* The except block: time.sleep(retry_delay) or raise *)
Except(t) ==
    /\ th[t].pc = "except"
    /\ IF IsRateLimit(th[t].err) /\ th[t].attempt < lim.max_retries
       THEN IF th[t].retry_delay < 0
            THEN Set(t, [th[t] EXCEPT !.pc = "raised", !.err = MsgSleepValueError])
            ELSE Set(t, [th[t] EXCEPT !.pc = "backoff",
                                      !.wake = now + th[t].retry_delay,
                                      !.slept = Append(@, th[t].retry_delay)])
       ELSE Set(t, [th[t] EXCEPT !.pc = "raised"])
    /\ UNCHANGED <<args, lim, minute_requests, hour_requests, lock, now, admitLog, callsLeft, horizon, complaints, scored>>

(* retry_delay = min(retry_delay * 2, 60); continue.  Leaving the except   *)
(* block unbinds e.                                                        *)
WakeBackoff(t) ==
    /\ th[t].pc = "backoff"
    /\ now >= th[t].wake
    /\ Set(t, [th[t] EXCEPT !.pc = "loop",
                            !.retry_delay = Min(@ * BackoffFactor, MaxDelayTicks),
                            !.attempt = @ + 1, !.err = NoErr])
    /\ UNCHANGED <<args, lim, minute_requests, hour_requests, lock, now, admitLog, callsLeft, horizon, complaints, scored>>

----------------------------------------------------------------------------
(* The clock.  The code reads it only to compare window entries with      *)
(* now - span and to compute oldest + 60 s - now, so time advances from one *)
(* instant that matters to a later one: the instant a sleeping thread is    *)
(* due, the last instant the head of a window is still inside its span, and *)
(* the first instant it is outside.  A sleep never ends early and may end   *)
(* late.  The 0.1 s poll is delivered on time MaxPolls times per call and   *)
(* late after that: at the next instant a window head expires, or on time   *)
(* when no such instant lies ahead, for the clock never stops under a       *)
(* sleeping thread.                                                         *)

Sleeping(t) == th[t].pc \in {"sleepwait", "sleeppoll", "backoff"}

ExpiryTimes ==
    (IF minute_requests = <<>> THEN {}
     ELSE {minute_requests[1] + MinuteTicks, minute_requests[1] + MinuteTicks + 1})
    \cup
    (IF hour_requests = <<>> THEN {}
     ELSE {hour_requests[1] + HourTicks, hour_requests[1] + HourTicks + 1})

DueTimes ==
    {th[t].wake : t \in {u \in Threads :
        /\ Sleeping(u)
        /\ (th[u].pc = "sleeppoll" =>
               \/ th[u].polls <= MaxPolls
               \/ \A n \in ExpiryTimes : n <= now)}}

Tick ==
    /\ \E n \in DueTimes \cup ExpiryTimes :
          /\ n > now
          /\ n <= horizon
          /\ now' = n
    /\ UNCHANGED <<args, lim, minute_requests, hour_requests, lock, th, admitLog, callsLeft, horizon, complaints, scored>>

Next ==
    \/ Construct
    \/ Tick
    \/ \E t \in Threads : CallAdmit(t)
    \/ \E t \in Threads : CallExecute(t)
    \/ \E t \in Threads : LoopHead(t)
    \/ \E t \in Threads : Acquire(t)
    \/ \E t \in Threads : Check(t)
    \/ \E t \in Threads : GetWait(t)
    \/ \E t \in Threads : WakeWait(t)
    \/ \E t \in Threads : WakePoll(t)
    \/ \E t \in Threads : Record(t)
    \/ \E t \in Threads : FuncReturns(t)
    \/ \E t \in Threads : FuncRaises(t)
    \/ \E t \in Threads : Except(t)
    \/ \E t \in Threads : WakeBackoff(t)

Spec == Init /\ [][Next]_vars

SpecCtor == InitCtor /\ [][Next]_vars

(* The same limiter observed for more than an hour, so that the hour       *)
(* window sheds its oldest entries.                                        *)
MaxTimeHour == 36002

HourArgs == {Arg(1, 1, 0, 10), Arg(1, 2, 1, 10)}

InitHour == InitWith(HourArgs, MaxCalls, MaxTimeHour)

SpecHour == InitHour /\ [][Next]_vars

(* The callers of wait_if_needed alone, observed until nothing is left to  *)
(* happen: the observation ends after every instant at which an admission  *)
(* can be due.  With one request a minute and one an hour, a second caller *)
(* finds both windows full.  A thread that can go on does so in the end    *)
(* (the callers being finitely many, no more is asked of the lock), and    *)
(* the clock goes on to the next instant that matters.                     *)
LiveArgs == {Arg(1, 1, 0, 10)}

LiveHorizon == (MaxCalls + 1) * (HourTicks + MinuteTicks)

InitLive == InitWith(LiveArgs, MaxCalls, LiveHorizon)

NextAdmit ==
    \/ Construct
    \/ Tick
    \/ \E t \in Threads : CallAdmit(t)
    \/ \E t \in Threads : Acquire(t)
    \/ \E t \in Threads : Check(t)
    \/ \E t \in Threads : GetWait(t)
    \/ \E t \in Threads : WakeWait(t)
    \/ \E t \in Threads : WakePoll(t)
    \/ \E t \in Threads : Record(t)

(* a step of thread t inside wait_if_needed *)
AdmitStep(t) ==
    \/ Acquire(t)
    \/ Check(t)
    \/ GetWait(t)
    \/ WakeWait(t)
    \/ WakePoll(t)
    \/ Record(t)

FairAdmit ==
    /\ WF_vars(Tick)
    /\ \A t \in Threads : WF_vars(AdmitStep(t))

SpecLive == InitLive /\ [][NextAdmit]_vars /\ FairAdmit

----------------------------------------------------------------------------
(* PriorityScorer.  A complaint is a dict: a function from the keys it     *)
(* holds to tagged values.  A str is a sequence of characters;             *)
(* a str that datetime.fromisoformat accepts is tagged "iso" and carries   *)
(* the instant it denotes, in ticks.                                       *)

MaxDays == 2
MaxScoreCalls == 2

TicksPerDay == 864000

AGE_MULTIPLIER == 5
AGE_MAX == 50
POPULATION_MULTIPLIER == 2
POPULATION_MAX == 40

(* Every value carries the same fields: its tag, its characters (a str),   *)
(* its number (an int, or the instant of a timestamp) and its entries (the *)
(* breakdown dict).                                                        *)
NoEntries ==
    [priority_level |-> 0, status |-> 0, age |-> 0, population_impact |-> 0, total |-> 0]

StrV(chars) == [tag |-> "str", s |-> chars, n |-> 0, d |-> NoEntries]
IntV(n) == [tag |-> "int", s |-> <<>>, n |-> n, d |-> NoEntries]
IsoV(t) == [tag |-> "iso", s |-> <<>>, n |-> t, d |-> NoEntries]
NoneV == [tag |-> "none", s |-> <<>>, n |-> 0, d |-> NoEntries]
DictV(d) == [tag |-> "dict", s |-> <<>>, n |-> 0, d |-> d]

S_urgent == <<"u","r","g","e","n","t">>
S_high == <<"h","i","g","h">>
S_medium == <<"m","e","d","i","u","m">>
S_low == <<"l","o","w">>
S_escalated == <<"e","s","c","a","l","a","t","e","d">>
S_open == <<"o","p","e","n">>
S_pending == <<"p","e","n","d","i","n","g">>
S_resolved == <<"r","e","s","o","l","v","e","d">>

PRIORITY_WEIGHTS(k) ==
    CASE k = S_urgent -> 100
      [] k = S_high -> 75
      [] k = S_medium -> 50
      [] k = S_low -> 25
      [] OTHER -> 0

STATUS_WEIGHTS(k) ==
    CASE k = S_escalated -> 50
      [] k = S_open -> 30
      [] k = S_pending -> 20
      [] k = S_resolved -> 0
      [] OTHER -> 0

(* dict.get(key, default) *)
Get(d, key, default) == IF key \in DOMAIN d THEN d[key] ELSE default

(* timedelta.days: whole days, rounded towards minus infinity *)
Days(delta) == delta \div TicksPerDay

(* an age score that lacks the cap *)
calculate_age_scoreNoCap(created_at, t) ==
    IF created_at.tag = "iso"
    THEN Days(t - created_at.n) * AGE_MULTIPLIER
    ELSE 0

(* an age score that counts the fraction of a day begun *)
calculate_age_scoreFractional(created_at, t) ==
    IF created_at.tag = "iso"
    THEN Min(((t - created_at.n) * AGE_MULTIPLIER) \div TicksPerDay, AGE_MAX)
    ELSE 0

(* calculate_age_score: every exception of the parse is caught and gives 0 *)
calculate_age_score(created_at, t) ==
    IF created_at.tag = "iso"
    THEN Min(Days(t - created_at.n) * AGE_MULTIPLIER, AGE_MAX)
    ELSE 0

(* Truth value of a Python object *)
Truthy(x) ==
    CASE x.tag = "none" -> FALSE
      [] x.tag = "int" -> x.n # 0
      [] x.tag = "str" -> x.s # <<>>
      [] OTHER -> TRUE

(* calculate_population_score: `x > 0` raises TypeError unless x is a number *)
PopulationRaises(affected_people) ==
    Truthy(affected_people) /\ affected_people.tag # "int"

calculate_population_score(affected_people) ==
    IF Truthy(affected_people) /\ affected_people.n > 0
    THEN Min(affected_people.n * POPULATION_MULTIPLIER, POPULATION_MAX)
    ELSE 0

(* .lower() exists on str only: any other value raises AttributeError *)
HasLower(x) == x.tag \in {"str", "iso"}

(* The characters of a str; those of a timestamp are never a table key. *)
Chars(x) == IF x.tag = "str" THEN x.s ELSE <<"t">>

ScoreRaises(complaint) ==
    IF ~HasLower(Get(complaint, "priority", StrV(S_low))) THEN "AttributeError"
    ELSE IF ~HasLower(Get(complaint, "status", StrV(S_pending))) THEN "AttributeError"
    ELSE IF PopulationRaises(Get(complaint, "affected_people", IntV(0))) THEN "TypeError"
    ELSE "no"

(* score_complaint, for a complaint on which nothing raises *)
score_complaint(complaint, t) ==
    LET priority_weight ==
            PRIORITY_WEIGHTS(Lower(Chars(Get(complaint, "priority", StrV(S_low)))))
        status_weight ==
            STATUS_WEIGHTS(Lower(Chars(Get(complaint, "status", StrV(S_pending)))))
        age_score == calculate_age_score(Get(complaint, "created_at", StrV(<<>>)), t)
        population_score ==
            calculate_population_score(Get(complaint, "affected_people", IntV(0)))
        total_score == priority_weight + status_weight + age_score + population_score
    IN [k \in DOMAIN complaint \cup {"priority_score", "priority_breakdown"} |->
           IF k = "priority_score" THEN IntV(total_score)
           ELSE IF k = "priority_breakdown"
           THEN DictV([priority_level |-> priority_weight,
                       status |-> status_weight,
                       age |-> age_score,
                       population_impact |-> population_score,
                       total |-> total_score])
           ELSE complaint[k]]

(* sorted(..., key=priority_score, reverse=True) is stable: an element goes *)
(* behind every element whose key is at least its own.                      *)
SortKey(x) == Get(x, "priority_score", IntV(0)).n

(* a sort that puts an element in front of its equals *)
RECURSIVE InsertDescTiesFirst(_, _)
InsertDescTiesFirst(s, x) ==
    IF s = <<>> THEN <<x>>
    ELSE IF SortKey(Head(s)) > SortKey(x)
         THEN <<Head(s)>> \o InsertDescTiesFirst(Tail(s), x)
         ELSE <<x>> \o s

RECURSIVE InsertDesc(_, _)
InsertDesc(s, x) ==
    IF s = <<>> THEN <<x>>
    ELSE IF SortKey(Head(s)) >= SortKey(x)
         THEN <<Head(s)>> \o InsertDesc(Tail(s), x)
         ELSE <<x>> \o s

RECURSIVE SortedDesc(_)
SortedDesc(s) ==
    IF s = <<>> THEN <<>>
    ELSE InsertDesc(SortedDesc(SubSeq(s, 1, Len(s) - 1)), s[Len(s)])

FirstRaise(cs) ==
    IF \E i \in DOMAIN cs : ScoreRaises(cs[i]) # "no"
    THEN ScoreRaises(cs[CHOOSE i \in DOMAIN cs :
                          /\ ScoreRaises(cs[i]) # "no"
                          /\ \A j \in 1..(i - 1) : ScoreRaises(cs[j]) = "no"])
    ELSE "no"

(* The complaints a caller may pass; Absent marks a key the dict lacks. *)
MkComplaint(fields) ==
    [k \in {f \in DOMAIN fields : fields[f].tag # "absent"} |-> fields[k]]

Absent == [tag |-> "absent", s |-> <<>>, n |-> 0, d |-> NoEntries]

PriorityInputs ==
    {Absent, NoneV, StrV(S_urgent), StrV(<<"H","i","g","h">>), StrV(S_medium),
     StrV(S_low), StrV(<<"a","s","a","p">>)}

StatusInputs ==
    {Absent, NoneV, StrV(S_escalated), StrV(<<"O","P","E","N">>), StrV(S_pending),
     StrV(S_resolved)}

CreatedInputs ==
    {Absent, NoneV, StrV(<<"s","o","o","n">>), IsoV(0 - 30 * TicksPerDay),
     IsoV(0 - TicksPerDay), IsoV(-1), IsoV(0), IsoV(1), IsoV(3 * TicksPerDay)}

PeopleInputs ==
    {Absent, NoneV, StrV(<<"5">>), IntV(-3), IntV(0), IntV(10), IntV(20), IntV(500)}

Complaints ==
    {MkComplaint([id |-> IntV(1), priority |-> p, status |-> s,
                  created_at |-> c, affected_people |-> a]) :
        p \in PriorityInputs, s \in StatusInputs,
        c \in CreatedInputs, a \in PeopleInputs}

(* Complaints told apart by their id, for lists of several: the first two  *)
(* always score alike, the last one gains five points a day.               *)
Samples ==
    {MkComplaint([id |-> IntV(1), priority |-> StrV(S_urgent),
                  status |-> StrV(S_escalated)]),
     MkComplaint([id |-> IntV(2), priority |-> StrV(S_urgent),
                  status |-> StrV(S_escalated)]),
     MkComplaint([id |-> IntV(3), priority |-> StrV(S_low),
                  status |-> StrV(S_pending)]),
     MkComplaint([id |-> IntV(4), priority |-> StrV(<<"H","i","g","h">>),
                  status |-> StrV(<<"O","P","E","N">>),
                  affected_people |-> IntV(10)]),
     MkComplaint([id |-> IntV(5), priority |-> StrV(S_medium),
                  status |-> StrV(S_escalated), created_at |-> IsoV(0),
                  affected_people |-> IntV(20)])}

Batches ==
    {<<>>}
    \cup {<<c>> : c \in Complaints}
    \cup {s \in {<<a, b>> : a \in Samples, b \in Samples} : s[1] # s[2]}
    \cup {s \in {<<a, b, c>> : a \in Samples, b \in Samples, c \in Samples} :
             s[1] # s[2] /\ s[1] # s[3] /\ s[2] # s[3]}

InitScore ==
    /\ args = Arg(30, 1500, 5, 10)
    /\ lim = NoLimiter
    /\ minute_requests = <<>>
    /\ hour_requests = <<>>
    /\ lock = 0
    /\ now = 0
    /\ th = [t \in Threads |-> InitThread]
    /\ admitLog = <<>>
    /\ callsLeft = 0
    /\ horizon = MaxDays * TicksPerDay
    /\ complaints \in Batches
    /\ scored = <<>>

Outcome(call, i, cs, out) ==
    [call |-> call, arg |-> i, at |-> now,
     raised |-> FirstRaise(cs),
     out |-> IF FirstRaise(cs) = "no" THEN out ELSE <<>>]

(* a scorer that writes the score into the caller's dict *)
ScoreComplaintInPlace(i) ==
    /\ Len(scored) < MaxScoreCalls
    /\ i \in DOMAIN complaints
    /\ scored' = Append(scored,
                    Outcome("score", i, <<complaints[i]>>,
                            <<score_complaint(complaints[i], now)>>))
    /\ complaints' = IF FirstRaise(<<complaints[i]>>) = "no"
                     THEN [complaints EXCEPT
                              ![i] = score_complaint(complaints[i], now)]
                     ELSE complaints
    /\ UNCHANGED <<args, lim, minute_requests, hour_requests, lock, now, th,
                   admitLog, callsLeft, horizon>>

(* PriorityScorer.score_complaint(complaints[i]) *)
ScoreComplaint(i) ==
    /\ Len(scored) < MaxScoreCalls
    /\ i \in DOMAIN complaints
    /\ scored' = Append(scored,
                    Outcome("score", i, <<complaints[i]>>,
                            <<score_complaint(complaints[i], now)>>))
    /\ UNCHANGED <<args, lim, minute_requests, hour_requests, lock, now, th,
                   admitLog, callsLeft, horizon, complaints>>

(* PriorityScorer.score_and_sort_complaints(complaints) *)
ScoreAndSort ==
    /\ Len(scored) < MaxScoreCalls
    /\ scored' = Append(scored,
                    Outcome("sort", 0, complaints,
                            SortedDesc([i \in DOMAIN complaints |->
                                           score_complaint(complaints[i], now)])))
    /\ UNCHANGED <<args, lim, minute_requests, hour_requests, lock, now, th,
                   admitLog, callsLeft, horizon, complaints>>

(* Days pass between two calls of the scorer. *)
Elapse ==
    /\ now + TicksPerDay <= horizon
    /\ now' = now + TicksPerDay
    /\ UNCHANGED <<args, lim, minute_requests, hour_requests, lock, th,
                   admitLog, callsLeft, horizon, complaints, scored>>

NextScore ==
    \/ \E i \in DOMAIN complaints : ScoreComplaint(i)
    \/ ScoreAndSort
    \/ Elapse

SpecScore == InitScore /\ [][NextScore]_vars

(* The same scorer observed at moments half a day apart, so that two calls *)
(* may fall within one whole day of a complaint's age or on either side of *)
(* a day boundary.                                                         *)
TimedComplaints ==
    {MkComplaint([id |-> IntV(1), priority |-> p, created_at |-> c,
                  affected_people |-> a]) :
        p \in {Absent, StrV(S_urgent)}, c \in CreatedInputs,
        a \in {Absent, IntV(10)}}

InitMoments ==
    /\ args = Arg(30, 1500, 5, 10)
    /\ lim = NoLimiter
    /\ minute_requests = <<>>
    /\ hour_requests = <<>>
    /\ lock = 0
    /\ now = 0
    /\ th = [t \in Threads |-> InitThread]
    /\ admitLog = <<>>
    /\ callsLeft = 0
    /\ horizon = MaxDays * TicksPerDay
    /\ complaints \in {<<c>> : c \in TimedComplaints}
    /\ scored = <<>>

ElapseHalfDay ==
    /\ now + (TicksPerDay \div 2) <= horizon
    /\ now' = now + (TicksPerDay \div 2)
    /\ UNCHANGED <<args, lim, minute_requests, hour_requests, lock, th,
                   admitLog, callsLeft, horizon, complaints, scored>>

NextMoments ==
    \/ \E i \in DOMAIN complaints : ScoreComplaint(i)
    \/ ElapseHalfDay

SpecMoments == InitMoments /\ [][NextMoments]_vars

----------------------------------------------------------------------------
(* PriorityScorer.get_priority_category *)

(* thresholds that must be exceeded rather than reached *)
get_priority_categoryExclusive(score) ==
    IF score > 200 THEN "CRITICAL"
    ELSE IF score > 150 THEN "HIGH"
    ELSE IF score > 100 THEN "MEDIUM"
    ELSE IF score > 50 THEN "LOW"
    ELSE "MINIMAL"

get_priority_category(score) ==
    IF score >= 200 THEN "CRITICAL"
    ELSE IF score >= 150 THEN "HIGH"
    ELSE IF score >= 100 THEN "MEDIUM"
    ELSE IF score >= 50 THEN "LOW"
    ELSE "MINIMAL"

(* The scores a caller may pass: every multiple of five from below the     *)
(* range of totals to above it, and the value just under each multiple of  *)
(* fifty.                                                                  *)
CategoryScores == {s \in (0 - 5)..245 : s % 5 = 0 \/ s % 50 = 49}

InitCategory ==
    /\ args = Arg(30, 1500, 5, 10)
    /\ lim = NoLimiter
    /\ minute_requests = <<>>
    /\ hour_requests = <<>>
    /\ lock = 0
    /\ now = 0
    /\ th = [t \in Threads |-> InitThread]
    /\ admitLog = <<>>
    /\ callsLeft = 0
    /\ horizon = 0
    /\ complaints = <<>>
    /\ scored = <<>>

(* PriorityScorer.get_priority_category(score) *)
Categorize(score) ==
    /\ Len(scored) < MaxScoreCalls
    /\ scored' = Append(scored,
                    [call |-> "category", arg |-> score, at |-> now,
                     raised |-> "no", out |-> <<>>,
                     label |-> get_priority_category(score)])
    /\ UNCHANGED <<args, lim, minute_requests, hour_requests, lock, now, th,
                   admitLog, callsLeft, horizon, complaints>>

NextCategory == \E score \in CategoryScores : Categorize(score)

SpecCategory == InitCategory /\ [][NextCategory]_vars

----------------------------------------------------------------------------
(* Properties of the rate limiter *)

Last(s) == s[Len(s)]

Retrying(t) == th[t].mode = "exec"

Finished(t) == th[t].pc \in {"returned", "raised"}

OnlyRateLimited(h) == \A i \in DOMAIN h : h[i] = "rl"

RecordedWithin(span) ==
    Cardinality({i \in DOMAIN admitLog : admitLog[i] >= now - span})

(* C1: under every interleaving of the callers, the number of admissions   *)
(* ever recorded whose timestamp lies within the trailing 60 s of the      *)
(* clock is at most requests_per_minute and within the trailing 3600 s at  *)
(* most requests_per_hour, and neither window is longer than its limit.    *)
C1_WindowInvariant ==
    lim.built =>
        /\ RecordedWithin(MinuteTicks) <= lim.requests_per_minute
        /\ RecordedWithin(HourTicks) <= lim.requests_per_hour
        /\ Len(minute_requests) <= lim.requests_per_minute
        /\ Len(hour_requests) <= lim.requests_per_hour

(* A full minute window of two admissions, one caller asleep waiting for   *)
(* capacity and another caller contending for the lock.                    *)
C1_Witness ==
    /\ lim.requests_per_minute = 2
    /\ Len(minute_requests) = 2
    /\ RecordedWithin(MinuteTicks) = 2
    /\ \E t, u \in Threads :
          /\ t # u
          /\ th[t].pc = "sleepwait"
          /\ th[u].pc = "acquire"

(* C2: a caller asleep inside wait_if_needed(), for the computed wait or   *)
(* for the poll interval, does not hold the limiter's lock.                *)
C2_NoLockWhileSleeping ==
    \A t \in Threads : th[t].pc \in {"sleepwait", "sleeppoll"} => lock # t

(* C3: in execute_with_retry every invocation of the operation follows its *)
(* own recorded admission: a call that has made m attempts has recorded m  *)
(* admissions, plus the one of the attempt about to be made.               *)
C3_AdmissionBeforeEveryAttempt ==
    \A t \in Threads :
        Retrying(t) =>
            th[t].admitted = th[t].invoked + (IF th[t].pc = "call" THEN 1 ELSE 0)

(* A finished call that made three attempts, two of them retries. *)
C3_Witness ==
    \E t \in Threads :
        /\ Retrying(t)
        /\ Finished(t)
        /\ th[t].invoked = 3
        /\ th[t].admitted = 3

(* C4: with max_retries = n >= 0 and an operation whose every attempt      *)
(* raises a rate-limit error, the call makes at most n + 1 attempts and n  *)
(* backoff sleeps, and ends only by raising after exactly n + 1 attempts   *)
(* and n sleeps.                                                           *)
C4_RetryExhaustion ==
    \A t \in Threads :
        (Retrying(t) /\ lim.max_retries >= 0 /\ OnlyRateLimited(th[t].hist)) =>
            /\ th[t].invoked <= lim.max_retries + 1
            /\ Len(th[t].slept) <= lim.max_retries
            /\ Finished(t) =>
                  /\ th[t].pc = "raised"
                  /\ th[t].invoked = lim.max_retries + 1
                  /\ Len(th[t].slept) = lim.max_retries
                  /\ th[t].err = th[t].lasterr

(* max_retries = 2: three rate-limited attempts, two sleeps, then the raise *)
C4_Witness ==
    \E t \in Threads :
        /\ lim.max_retries = 2
        /\ th[t].pc = "raised"
        /\ th[t].hist = <<"rl", "rl", "rl">>
        /\ Len(th[t].slept) = 2

(* C5: once an attempt has raised an error that is not a rate-limit error, *)
(* the call raises that error: that attempt is the last one, no backoff    *)
(* sleep follows it and no further admission is recorded.                  *)
C5_OtherErrorsPropagateAtOnce ==
    \A t \in Threads :
        (Retrying(t) /\ \E i \in DOMAIN th[t].hist : th[t].hist[i] = "other") =>
            /\ Last(th[t].hist) = "other"
            /\ th[t].pc \in {"except", "raised"}
            /\ th[t].err = th[t].lasterr
            /\ ~IsRateLimit(th[t].err)
            /\ th[t].invoked = Len(th[t].hist)
            /\ th[t].admitted = th[t].invoked
            /\ Len(th[t].slept) = th[t].invoked - 1

(* A non-rate-limit error on the second of three allowed attempts. *)
C5_Witness ==
    \E t \in Threads :
        /\ lim.max_retries = 2
        /\ th[t].pc = "raised"
        /\ th[t].hist = <<"rl", "other">>
        /\ th[t].err = MsgTimeout

(* C6: the delays slept before the retries of one call never exceed 60 s   *)
(* and never decrease.                                                     *)
C6_BackoffMonotoneAndCapped ==
    \A t \in Threads :
        \A i \in DOMAIN th[t].slept :
            /\ th[t].slept[i] <= MaxDelayTicks
            /\ i > 1 => th[t].slept[i - 1] <= th[t].slept[i]

(* C7: rate-limit errors are not surfaced while retries remain: a call     *)
(* raises a rate-limit error only after max_retries + 1 attempts, and a    *)
(* call whose k <= max_retries rate-limited attempts are followed by a     *)
(* success has returned that attempt's result after k + 1 attempts.        *)
C7_TransientErrorsAbsorbed ==
    \A t \in Threads :
        (Retrying(t) /\ th[t].hist # <<>>) =>
            /\ (th[t].pc = "raised" /\ Last(th[t].hist) = "rl") =>
                  Len(th[t].hist) = lim.max_retries + 1
            /\ Last(th[t].hist) = "ok" =>
                  /\ th[t].pc = "returned"
                  /\ th[t].ret = th[t].lastval
                  /\ th[t].ret \in Values
                  /\ th[t].invoked = Len(th[t].hist)
                  /\ OnlyRateLimited(SubSeq(th[t].hist, 1, Len(th[t].hist) - 1))

(* Two rate-limited attempts, then a success whose result is returned. *)
C7_Witness ==
    \E t \in Threads :
        /\ th[t].pc = "returned"
        /\ th[t].hist = <<"rl", "rl", "ok">>
        /\ th[t].ret = "r2"

(* C8: for every limiter __init__ builds, execute_with_retry returns only  *)
(* when the operation was invoked and its last attempt succeeded, with     *)
(* that attempt's result, and otherwise raises the last attempt's error.   *)
C8_ReturnsOnlyOnSuccess ==
    \A t \in Threads :
        Retrying(t) =>
            /\ th[t].pc = "returned" =>
                  /\ th[t].invoked >= 1
                  /\ Last(th[t].hist) = "ok"
                  /\ th[t].ret = th[t].lastval
            /\ th[t].pc = "raised" =>
                  /\ th[t].invoked >= 1
                  /\ Last(th[t].hist) # "ok"
                  /\ th[t].err = th[t].lasterr

(* C9: no limiter exists with a non-positive request limit, a negative     *)
(* retry count or a non-positive initial delay.                            *)
C9_ConstructionRejectsBadConfig ==
    lim.built =>
        /\ lim.requests_per_minute > 0
        /\ lim.requests_per_hour > 0
        /\ lim.max_retries >= 0
        /\ lim.initial_retry_delay > 0

----------------------------------------------------------------------------
(* Properties of the priority scorer *)

Breakdown(x) == x["priority_breakdown"].d

(* C10: every scored complaint, one created in the future included, has a  *)
(* total within 0..240, a priority weight within 0..100, a status weight   *)
(* within 0..50, an age score within 0..50 and a population impact within  *)
(* 0..40.                                                                  *)
C10_ScoreWithinRange ==
    \A n \in DOMAIN scored :
        \A j \in DOMAIN scored[n].out :
            LET x == scored[n].out[j] IN
            /\ x["priority_score"].n \in 0..240
            /\ Breakdown(x).priority_level \in 0..100
            /\ Breakdown(x).status \in 0..50
            /\ Breakdown(x).age \in 0..50
            /\ Breakdown(x).population_impact \in 0..40

(* C11: scoring never raises, whatever the complaint's fields: a priority, *)
(* status, created_at or affected_people that is absent, None or of the    *)
(* wrong type or format still yields a scored result.                      *)
C11_ScoreNeverRaises ==
    \A n \in DOMAIN scored : scored[n].raised = "no"

Score(x) == x["priority_score"].n

(* where the scored copy of complaint c stands in the result *)
PosOf(out, c) == CHOOSE k \in DOMAIN out : out[k]["id"] = c["id"]

(* C12: score_and_sort_complaints returns one scored copy of every         *)
(* complaint, in non-increasing order of total score, and is stable: of    *)
(* two complaints with equal totals the one that came first in the input   *)
(* comes first in the result.                                              *)
C12_SortedAndStable ==
    \A n \in DOMAIN scored :
        (scored[n].call = "sort" /\ scored[n].raised = "no") =>
            LET out == scored[n].out IN
            /\ Len(out) = Len(complaints)
            /\ \A a \in DOMAIN complaints :
                   \E k \in DOMAIN out : out[k]["id"] = complaints[a]["id"]
            /\ \A i \in 1..(Len(out) - 1) : Score(out[i]) >= Score(out[i + 1])
            /\ \A a, b \in DOMAIN complaints :
                   (/\ a < b
                    /\ Score(out[PosOf(out, complaints[a])])
                         = Score(out[PosOf(out, complaints[b])]))
                   => PosOf(out, complaints[a]) < PosOf(out, complaints[b])

(* a sort that moved the first input to the back and kept a tie in order *)
C12_Witness ==
    \E n \in DOMAIN scored :
        /\ scored[n].call = "sort"
        /\ Len(scored[n].out) = 3
        /\ complaints[1]["id"] = scored[n].out[3]["id"]
        /\ Score(scored[n].out[1]) = Score(scored[n].out[2])
        /\ Score(scored[n].out[2]) > Score(scored[n].out[3])
        /\ PosOf(complaints, scored[n].out[1]) < PosOf(complaints, scored[n].out[2])

(* The documented weight of a recognised priority or status, -1 otherwise *)
DocPriorityWeight(x) ==
    CASE x = StrV(<<"u","r","g","e","n","t">>) -> 100
      [] x = StrV(<<"H","i","g","h">>) -> 75
      [] x = StrV(<<"m","e","d","i","u","m">>) -> 50
      [] x = StrV(<<"l","o","w">>) -> 25
      [] OTHER -> -1

DocStatusWeight(x) ==
    CASE x = StrV(<<"e","s","c","a","l","a","t","e","d">>) -> 50
      [] x = StrV(<<"O","P","E","N">>) -> 30
      [] x = StrV(<<"p","e","n","d","i","n","g">>) -> 20
      [] x = StrV(<<"r","e","s","o","l","v","e","d">>) -> 0
      [] OTHER -> -1

(* complaint c has a recognised priority and status, a creation time not   *)
(* after instant t and a count of affected people that is not negative     *)
WellFormedAt(c, t) ==
    /\ {"priority", "status", "created_at", "affected_people"} \subseteq DOMAIN c
    /\ DocPriorityWeight(c["priority"]) >= 0
    /\ DocStatusWeight(c["status"]) >= 0
    /\ c["created_at"].tag = "iso" /\ c["created_at"].n <= t
    /\ c["affected_people"].tag = "int" /\ c["affected_people"].n >= 0

(* C13: for a recognised priority p and status s, a creation time d whole  *)
(* days before now and n affected people, the total is                     *)
(* W_priority(p) + W_status(s) + min(5d, 50) + min(2n, 40), and the four    *)
(* sub-scores of the breakdown sum to the total; (urgent, escalated, 500    *)
(* people, 1 day) scores 195, (low, pending, 10 people, 0 days) scores 65,  *)
(* and an age of 30 days scores exactly 50.                                 *)
C13_ScoreFormula ==
    \A n \in DOMAIN scored :
        (scored[n].call = "score" /\ scored[n].raised = "no") =>
            LET c == complaints[scored[n].arg]
                x == scored[n].out[1]
                b == Breakdown(x)
                at == scored[n].at
            IN /\ b.priority_level + b.status + b.age + b.population_impact
                     = Score(x)
               /\ b.total = Score(x)
               /\ WellFormedAt(c, at) =>
                     \A d \in 0..40 :
                         (/\ d * TicksPerDay <= at - c["created_at"].n
                          /\ at - c["created_at"].n < (d + 1) * TicksPerDay)
                         => /\ b.priority_level = DocPriorityWeight(c["priority"])
                            /\ b.status = DocStatusWeight(c["status"])
                            /\ b.age = Min(5 * d, 50)
                            /\ b.population_impact
                                 = Min(2 * c["affected_people"].n, 40)
                            /\ d = 30 => b.age = 50
                            /\ (/\ DocPriorityWeight(c["priority"]) = 100
                                /\ DocStatusWeight(c["status"]) = 50
                                /\ c["affected_people"].n = 500
                                /\ d = 1) => Score(x) = 195
                            /\ (/\ DocPriorityWeight(c["priority"]) = 25
                                /\ DocStatusWeight(c["status"]) = 20
                                /\ c["affected_people"].n = 10
                                /\ d = 0) => Score(x) = 65

(* the urgent, escalated complaint of 500 people, scored a day after it was *)
(* created                                                                  *)
C13_Witness ==
    \E n \in DOMAIN scored :
        /\ scored[n].call = "score"
        /\ WellFormedAt(complaints[scored[n].arg], scored[n].at)
        /\ complaints[scored[n].arg]["priority"] = StrV(S_urgent)
        /\ complaints[scored[n].arg]["status"] = StrV(S_escalated)
        /\ complaints[scored[n].arg]["affected_people"] = IntV(500)
        /\ scored[n].at - complaints[scored[n].arg]["created_at"].n = TicksPerDay
        /\ Score(scored[n].out[1]) = 195

(* C14: get_priority_category gives every score exactly one label, with    *)
(* inclusive lower bounds: CRITICAL iff score >= 200, HIGH iff             *)
(* 150 <= score < 200, MEDIUM iff 100 <= score < 150, LOW iff              *)
(* 50 <= score < 100, MINIMAL iff score < 50.                              *)
C14_CategoryThresholds ==
    \A n \in DOMAIN scored :
        scored[n].call = "category" =>
            LET s == scored[n].arg
                l == scored[n].label
            IN /\ l \in {"CRITICAL", "HIGH", "MEDIUM", "LOW", "MINIMAL"}
               /\ (l = "CRITICAL") <=> (s >= 200)
               /\ (l = "HIGH") <=> (150 <= s /\ s < 200)
               /\ (l = "MEDIUM") <=> (100 <= s /\ s < 150)
               /\ (l = "LOW") <=> (50 <= s /\ s < 100)
               /\ (l = "MINIMAL") <=> (s < 50)

(* the two sides of the highest threshold have been categorised *)
C14_Witness ==
    \E m, n \in DOMAIN scored :
        /\ scored[m].call = "category" /\ scored[m].arg = 200
        /\ scored[m].label = "CRITICAL"
        /\ scored[n].call = "category" /\ scored[n].arg = 199
        /\ scored[n].label = "HIGH"

(* two "score" outcomes of one complaint *)
SameComplaint(m, n) ==
    /\ scored[m].call = "score" /\ scored[n].call = "score"
    /\ scored[m].arg = scored[n].arg

(* at instants t1 and t2 the same number of whole days has passed since    *)
(* complaint c was created; true of a complaint with no readable creation  *)
(* time                                                                    *)
SameAge(c, t1, t2) ==
    ("created_at" \in DOMAIN c /\ c["created_at"].tag = "iso") =>
        \E d \in (0 - 40)..40 :
            /\ d * TicksPerDay <= t1 - c["created_at"].n
            /\ t1 - c["created_at"].n < (d + 1) * TicksPerDay
            /\ d * TicksPerDay <= t2 - c["created_at"].n
            /\ t2 - c["created_at"].n < (d + 1) * TicksPerDay

(* C15 as stated: score_complaint gives the same priority_score and        *)
(* breakdown whenever it is applied to the same complaint, at whatever      *)
(* moments the two evaluations are made.                                    *)
C15_SameComplaintSameScore ==
    \A m, n \in DOMAIN scored :
        SameComplaint(m, n) =>
            /\ scored[m].out = scored[n].out
            /\ scored[m].raised = scored[n].raised

(* C15 amended: score_complaint depends on the fields of the complaint and *)
(* on the number of whole days between its creation time and the moment of  *)
(* the call, and on nothing else: two evaluations of the same complaint     *)
(* agree whenever that number is the same at both, and at any two moments   *)
(* for a complaint without a readable creation time.                        *)
C15_SameAgeSameScore ==
    \A m, n \in DOMAIN scored :
        (/\ SameComplaint(m, n)
         /\ SameAge(complaints[scored[m].arg], scored[m].at, scored[n].at))
        => /\ scored[m].out = scored[n].out
           /\ scored[m].raised = scored[n].raised

(* a complaint of positive age scored at two moments of the same day of    *)
(* its age                                                                  *)
C15_Witness ==
    \E m, n \in DOMAIN scored :
        /\ SameComplaint(m, n)
        /\ scored[m].at # scored[n].at
        /\ "created_at" \in DOMAIN complaints[scored[m].arg]
        /\ complaints[scored[m].arg]["created_at"].tag = "iso"
        /\ SameAge(complaints[scored[m].arg], scored[m].at, scored[n].at)
        /\ scored[m].raised = "no"
        /\ Breakdown(scored[m].out[1]).age > 0
        /\ scored[m].out = scored[n].out

AddedKeys == {"priority_score", "priority_breakdown"}

(* x is a copy of complaint c with the two scorer keys added *)
CopyOf(x, c) ==
    /\ DOMAIN x = DOMAIN c \cup AddedKeys
    /\ \A k \in DOMAIN c \ AddedKeys : x[k] = c[k]

(* C16: score_complaint and score_and_sort_complaints leave their inputs   *)
(* as they were: across every call the list keeps its length and order and *)
(* every complaint its fields and values, none gaining a priority_score or *)
(* priority_breakdown; each result is a copy of its complaint carrying all *)
(* the original fields.                                                    *)
C16_InputsUnchanged ==
    [][/\ complaints' = complaints
       /\ \A i \in DOMAIN complaints' :
              DOMAIN complaints'[i] \cap AddedKeys = {}
       /\ \A n \in DOMAIN scored' :
              scored'[n].raised = "no" =>
                  /\ scored'[n].call = "score" =>
                         CopyOf(scored'[n].out[1], complaints[scored'[n].arg])
                  /\ scored'[n].call = "sort" =>
                         /\ Len(scored'[n].out) = Len(complaints)
                         /\ \A i \in DOMAIN complaints :
                                \E k \in DOMAIN scored'[n].out :
                                    CopyOf(scored'[n].out[k], complaints[i])
      ]_vars

(* a list scored one by one and sorted into another order, still as passed *)
C16_Witness ==
    \E m, n \in DOMAIN scored :
        /\ scored[m].call = "score" /\ scored[m].raised = "no"
        /\ scored[n].call = "sort" /\ scored[n].raised = "no"
        /\ Len(scored[n].out) >= 2
        /\ scored[n].out[1]["id"] # complaints[1]["id"]
        /\ \A i \in DOMAIN complaints : DOMAIN complaints[i] \cap AddedKeys = {}

----------------------------------------------------------------------------
(* Properties of the two windows *)

Chronological(q) == \A i \in 1..(Len(q) - 1) : q[i] <= q[i + 1]

(* thread t passes the comparison of _can_make_request in this step *)
Compares(t) == th[t].pc = "check" /\ th'[t].pc \in {"record", "getwait"}

(* C17: both windows are in chronological order in every reachable state,  *)
(* and whenever a thread compares the window lengths with the limits the    *)
(* minute window holds no timestamp older than 60 s and the hour window     *)
(* none older than 3600 s.                                                  *)
C17_CheckOnPurgedWindows ==
    /\ [](Chronological(minute_requests) /\ Chronological(hour_requests))
    /\ [][\A t \in Threads :
             Compares(t) =>
                 /\ \A i \in DOMAIN minute_requests' :
                        minute_requests'[i] >= now - MinuteTicks
                 /\ \A i \in DOMAIN hour_requests' :
                        hour_requests'[i] >= now - HourTicks
         ]_vars

(* a thread admitted by a check that found the hour window purged: as many *)
(* admissions as the hour allows had been recorded before                  *)
C17_Witness ==
    \E t \in Threads :
        /\ th[t].pc = "record"
        /\ Len(admitLog) >= lim.requests_per_hour
        /\ Len(hour_requests) < Len(admitLog)
        /\ now > HourTicks

(* C18: in every reachable state every timestamp in the minute window is   *)
(* also in the hour window.                                                *)
C18_MinuteWithinHour ==
    \A i \in DOMAIN minute_requests :
        \E j \in DOMAIN hour_requests : hour_requests[j] = minute_requests[i]

(* three admissions: the first has left both windows, the second the       *)
(* minute window only, the third is in both                                *)
C18_Witness ==
    /\ minute_requests # <<>>
    /\ Len(hour_requests) > Len(minute_requests)
    /\ Len(admitLog) > Len(hour_requests)

(* q2 is q without some of its first entries, each older than the cutoff *)
PurgedFrom(q2, q, cutoff) ==
    /\ Len(q2) <= Len(q)
    /\ q2 = SubSeq(q, Len(q) - Len(q2) + 1, Len(q))
    /\ \A i \in 1..(Len(q) - Len(q2)) : q[i] < cutoff

(* thread t records its admission in this step *)
Admits(t) == th[t].pc = "record" /\ th'[t].pc # "record"

(* thread t runs a purge in this step: in the admission check, in the      *)
(* computation of the wait, or on waking from the wait                     *)
Purges(t) ==
    /\ th[t].pc \in {"check", "getwait", "sleepwait"}
    /\ th'[t].pc # th[t].pc

(* C19: the windows change in two ways only: an admission appends one      *)
(* timestamp, the same, to the tail of both, and a purge removes expired   *)
(* timestamps from their heads.  Every other step (waiting for the lock, a *)
(* sleep, a backoff, the wrapped operation returning or raising, the end   *)
(* of a call) leaves both windows as they are: a failed attempt does not   *)
(* give its slot back.                                                     *)
C19_WindowsChangeByAdmitAndPurge ==
    [][\/ \E t \in Threads :
              /\ Admits(t)
              /\ minute_requests' = Append(minute_requests, now)
              /\ hour_requests' = Append(hour_requests, now)
       \/ /\ \E t \in Threads : Purges(t)
          /\ PurgedFrom(minute_requests', minute_requests, now - MinuteTicks)
          /\ PurgedFrom(hour_requests', hour_requests, now - HourTicks)
       \/ /\ \A t \in Threads : ~Admits(t)
          /\ minute_requests' = minute_requests
          /\ hour_requests' = hour_requests
      ]_vars

(* an attempt has failed for good, and the timestamp of its admission is   *)
(* still the newest of the minute window, from which an older one has been *)
(* purged                                                                  *)
C19_Witness ==
    \E t \in Threads :
        /\ th[t].pc = "raised"
        /\ th[t].admitted >= 1
        /\ minute_requests # <<>>
        /\ Last(minute_requests) = Last(admitLog)
        /\ Len(admitLog) > Len(minute_requests)

----------------------------------------------------------------------------
(* Properties of the wait *)

(* thread t sleeps in wait_if_needed, having found the minute window not   *)
(* empty; it holds the lock, so the window is as it found it               *)
WaitsOnMinuteWindow(t) ==
    /\ th[t].pc \in {"sleepwait", "sleeppoll"}
    /\ minute_requests # <<>>

(* C20: a thread refused while the minute window is not empty computes as  *)
(* its wait the time left, never negative, until the oldest entry of the   *)
(* minute window is 60 s old, and sleeps that wait plus the 0.1 s buffer,   *)
(* so that it wakes no sooner than 0.1 s after that entry has turned 60 s   *)
(* old; after such a sleep a check is never again refused by the           *)
(* per-minute limit: a thread refused once more finds the hour window      *)
(* full.                                                                   *)
C20_WaitFreesMinuteSlot ==
    \A t \in Threads :
        /\ WaitsOnMinuteWindow(t) =>
               /\ th[t].wait_time >= 0
               /\ th[t].wait_time <= MinuteTicks
               /\ th[t].wake = minute_requests[1] + MinuteTicks + BufferTicks
               /\ th[t].wake - (th[t].wait_time + BufferTicks) <= now
        /\ (th[t].pc = "getwait" /\ th[t].waits >= 1) =>
               /\ Len(minute_requests) < lim.requests_per_minute
               /\ Len(hour_requests) >= lim.requests_per_hour

(* a thread admitted on the first check after its one sleep *)
C20_Witness ==
    \E t \in Threads :
        /\ th[t].pc = "record"
        /\ th[t].waits = 1
        /\ th[t].polls = 0
        /\ th[t].wait_time > 0
        /\ now >= th[t].wake

(* thread t sleeps in wait_if_needed, having found the minute window empty *)
(* on computing its wait                                                   *)
SleepsOnEmptyMinuteWindow(t) ==
    /\ th[t].pc \in {"sleepwait", "sleeppoll"}
    /\ minute_requests = <<>>

(* thread t passes the admission check in this step *)
PassesCheck(t) == th[t].pc = "check" /\ th'[t].pc = "record"

(* C21: a thread refused while the minute window is empty after the purge  *)
(* (the hour window being the full one) computes a wait of 0 and sleeps    *)
(* the fixed poll interval of 0.1 s before it checks again; and no check   *)
(* made on a full hour window admits before the oldest entry of that       *)
(* window is more than 3600 s old.                                         *)
C21_PollsUntilHourExpiry ==
    /\ [](\A t \in Threads :
             SleepsOnEmptyMinuteWindow(t) =>
                 /\ th[t].pc = "sleeppoll"
                 /\ th[t].wait_time = 0
                 /\ th[t].wake - PollTicks <= now)
    /\ [][\A t \in Threads :
             (PassesCheck(t) /\ Len(hour_requests) >= lim.requests_per_hour)
             => hour_requests[1] + HourTicks < now
         ]_vars

(* a thread that only polled, on an empty minute window, and is admitted   *)
(* after more than an hour, as many admissions as the hour allows having   *)
(* been recorded before                                                    *)
C21_Witness ==
    \E t \in Threads :
        /\ th[t].pc = "record"
        /\ th[t].polls >= 1
        /\ th[t].waits = 0
        /\ th[t].wait_time = 0
        /\ minute_requests = <<>>
        /\ Len(admitLog) >= lim.requests_per_hour
        /\ now > HourTicks

----------------------------------------------------------------------------
(* Termination of wait_if_needed *)

InAdmit(t) == th[t].mode = "admit" /\ ~AtRest(t)

(* C22: for a limiter with positive limits, under fair scheduling of the   *)
(* callers and a clock that keeps advancing, every call of wait_if_needed  *)
(* by any of the concurrent callers returns in the end, a call made while  *)
(* a window is full or while another caller holds the lock included.       *)
C22_AdmitReturns ==
    \A t \in Threads : InAdmit(t) ~> (th[t].pc = "returned")

(* two callers have returned, one of them after sleeping on a full window  *)
(* while the other had its call under way                                  *)
C22_Witness ==
    \E t, u \in Threads :
        /\ t # u
        /\ th[t].mode = "admit" /\ th[t].pc = "returned"
        /\ th[u].mode = "admit" /\ th[u].pc = "returned"
        /\ th[t].waits + th[t].polls >= 1
        /\ Len(admitLog) >= 2
        /\ callsLeft = 0

====
